---- MODULE Spec2Model ----
(***************************************************************************)
(* Model of checked-ranges (src/src/lib.rs): the three validated range     *)
(* types PositiveAscendingRange, NegativeAscendingRange and AscendingRange *)
(* over a half-open Range<T>, and the RangeExt predicates covers and       *)
(* intersects.  T is modelled by the integers; only Ord and Zero are used  *)
(* by the source, so no arithmetic (and no overflow) is involved.          *)
(***************************************************************************)
EXTENDS Integers, FiniteSets, Sequences, TLC

\* ---------------------------------------------------------------- bounds
MaxAbs == 3
RelLo == 1
RelHi == 8

Values == (0 - MaxAbs)..MaxAbs
RelValues == (0 - RelLo)..RelHi

\* ------------------------------------------------------- program constants
Zero == 0
START_AFTER_END_ERR == "The start of the given range is greater than the end of the given range"
END_GREATER_THAN_ZERO == "The end of the given range is greater than zero"
START_LESS_THAN_ZERO == "The start of the given range is less than zero"
POS_SET_START_ERR == "Start greater than end or less than zero"
POS_SET_END_ERR == "End less than start"
NEG_SET_START_ERR == "Start greater than end"
NEG_SET_END_ERR == "End less than start or greater than zero"
ASC_SET_START_ERR == "Start greater than end"
ASC_SET_END_ERR == "End less than start"

\* ------------------------------------------------------------------ values
\* std::ops::Range<T>: a plain pair, no invariant of its own.
Range(s, e) == [start |-> s, end |-> e]
\* Result<_, &str>
Ok(v) == [ok |-> TRUE, val |-> v]
Err(m) == [ok |-> FALSE, err |-> m]
\* Placeholder held by range and arg while no value of the wrapper type exists.
NoRange == Range(Zero, Zero)
NoCall == [ok |-> FALSE, err |-> "no call"]
Types == {"PositiveAscendingRange", "NegativeAscendingRange", "AscendingRange"}

VARIABLES
    ty,      \* the wrapper type of the value under observation
    live,    \* TRUE once try_from has returned Ok(Self(r))
    range,   \* self.0 of that value (NoRange while not live)
    op,      \* the last function called on it
    arg,     \* the argument of that call
    ret,     \* what that call returned
    self,    \* RangeExt receiver
    other,   \* RangeExt argument
    relOp,   \* the last RangeExt predicate called
    result   \* what it returned

vars == <<ty, live, range, op, arg, ret, self, other, relOp, result>>
rangeVars == <<ty, live, range, op, arg, ret>>
relVars == <<self, other, relOp, result>>

\* ------------------------------------------------------------- RangeExt
\* Mutant: the upper bounds are compared strictly.
covers_mut(a, b) == a.start <= b.start /\ a.end > b.end
covers(a, b) == a.start <= b.start /\ a.end >= b.end

\* Mutant: the conventional symmetric overlap test.
intersects_mut(a, b) == a.start <= b.end /\ b.start <= a.end
intersects(a, b) == a.start <= b.end /\ a.end <= b.start

\* ------------------------------------------------- PositiveAscendingRange
\* Mutant: the sign is tested before the ordering.
PositiveAscendingRange_try_from_res_mut(r) ==
    IF r.start < Zero
    THEN Err(START_LESS_THAN_ZERO)
    ELSE IF r.start <= r.end THEN Ok(r) ELSE Err(START_AFTER_END_ERR)

PositiveAscendingRange_try_from_res(r) ==
    IF r.start <= r.end
    THEN IF r.start >= Zero THEN Ok(r) ELSE Err(START_LESS_THAN_ZERO)
    ELSE Err(START_AFTER_END_ERR)

PositiveAscendingRange_try_from(r) ==
    /\ ty = "PositiveAscendingRange"
    /\ ~live
    /\ op' = "try_from"
    /\ arg' = r
    /\ ret' = PositiveAscendingRange_try_from_res(r)
    /\ live' = ret'.ok
    /\ range' = IF ret'.ok THEN ret'.val ELSE range
    /\ UNCHANGED <<ty, relVars>>

\* Mutant: the lower bound is tested with >= as in try_from.
PositiveAscendingRange_set_start_mut(x) ==
    /\ ty = "PositiveAscendingRange"
    /\ live
    /\ op' = "set_start"
    /\ arg' = x
    /\ IF x <= range.end /\ x >= Zero
       THEN /\ ret' = Ok(range.start)
            /\ range' = [range EXCEPT !.start = x]
       ELSE /\ ret' = Err(POS_SET_START_ERR)
            /\ range' = range
    /\ UNCHANGED <<ty, live, relVars>>

PositiveAscendingRange_set_start(x) ==
    /\ ty = "PositiveAscendingRange"
    /\ live
    /\ op' = "set_start"
    /\ arg' = x
    /\ IF x <= range.end /\ x > Zero
       THEN /\ ret' = Ok(range.start)
            /\ range' = [range EXCEPT !.start = x]
       ELSE /\ ret' = Err(POS_SET_START_ERR)
            /\ range' = range
    /\ UNCHANGED <<ty, live, relVars>>

\* Mutant: the new end is tested against zero instead of the start.
PositiveAscendingRange_set_end_mut(x) ==
    /\ ty = "PositiveAscendingRange"
    /\ live
    /\ op' = "set_end"
    /\ arg' = x
    /\ IF x >= Zero
       THEN /\ ret' = Ok(range.end)
            /\ range' = [range EXCEPT !.end = x]
       ELSE /\ ret' = Err(POS_SET_END_ERR)
            /\ range' = range
    /\ UNCHANGED <<ty, live, relVars>>

PositiveAscendingRange_set_end(x) ==
    /\ ty = "PositiveAscendingRange"
    /\ live
    /\ op' = "set_end"
    /\ arg' = x
    /\ IF x >= range.start
       THEN /\ ret' = Ok(range.end)
            /\ range' = [range EXCEPT !.end = x]
       ELSE /\ ret' = Err(POS_SET_END_ERR)
            /\ range' = range
    /\ UNCHANGED <<ty, live, relVars>>

\* ------------------------------------------------- NegativeAscendingRange
\* Mutant: the sign of the start is tested instead of the sign of the end.
NegativeAscendingRange_try_from_res_mut(r) ==
    IF r.start <= r.end
    THEN IF r.start <= Zero THEN Ok(r) ELSE Err(END_GREATER_THAN_ZERO)
    ELSE Err(START_AFTER_END_ERR)

NegativeAscendingRange_try_from_res(r) ==
    IF r.start <= r.end
    THEN IF r.end <= Zero THEN Ok(r) ELSE Err(END_GREATER_THAN_ZERO)
    ELSE Err(START_AFTER_END_ERR)

NegativeAscendingRange_try_from(r) ==
    /\ ty = "NegativeAscendingRange"
    /\ ~live
    /\ op' = "try_from"
    /\ arg' = r
    /\ ret' = NegativeAscendingRange_try_from_res(r)
    /\ live' = ret'.ok
    /\ range' = IF ret'.ok THEN ret'.val ELSE range
    /\ UNCHANGED <<ty, relVars>>

NegativeAscendingRange_set_start(x) ==
    /\ ty = "NegativeAscendingRange"
    /\ live
    /\ op' = "set_start"
    /\ arg' = x
    /\ IF x <= range.end
       THEN /\ ret' = Ok(range.start)
            /\ range' = [range EXCEPT !.start = x]
       ELSE /\ ret' = Err(NEG_SET_START_ERR)
            /\ range' = range
    /\ UNCHANGED <<ty, live, relVars>>

\* Mutant: the upper bound is tested with <= as in try_from.
NegativeAscendingRange_set_end_mut(x) ==
    /\ ty = "NegativeAscendingRange"
    /\ live
    /\ op' = "set_end"
    /\ arg' = x
    /\ IF x >= range.start /\ x <= Zero
       THEN /\ ret' = Ok(range.end)
            /\ range' = [range EXCEPT !.end = x]
       ELSE /\ ret' = Err(NEG_SET_END_ERR)
            /\ range' = range
    /\ UNCHANGED <<ty, live, relVars>>

NegativeAscendingRange_set_end(x) ==
    /\ ty = "NegativeAscendingRange"
    /\ live
    /\ op' = "set_end"
    /\ arg' = x
    /\ IF x >= range.start /\ x < Zero
       THEN /\ ret' = Ok(range.end)
            /\ range' = [range EXCEPT !.end = x]
       ELSE /\ ret' = Err(NEG_SET_END_ERR)
            /\ range' = range
    /\ UNCHANGED <<ty, live, relVars>>

\* --------------------------------------------------------- AscendingRange
AscendingRange_try_from_res(r) ==
    IF r.start <= r.end THEN Ok(r) ELSE Err(START_AFTER_END_ERR)

AscendingRange_try_from(r) ==
    /\ ty = "AscendingRange"
    /\ ~live
    /\ op' = "try_from"
    /\ arg' = r
    /\ ret' = AscendingRange_try_from_res(r)
    /\ live' = ret'.ok
    /\ range' = IF ret'.ok THEN ret'.val ELSE range
    /\ UNCHANGED <<ty, relVars>>

\* Mutant: the sign test of PositiveAscendingRange::set_start is kept.
AscendingRange_set_start_mut(x) ==
    /\ ty = "AscendingRange"
    /\ live
    /\ op' = "set_start"
    /\ arg' = x
    /\ IF x <= range.end /\ x > Zero
       THEN /\ ret' = Ok(range.start)
            /\ range' = [range EXCEPT !.start = x]
       ELSE /\ ret' = Err(ASC_SET_START_ERR)
            /\ range' = range
    /\ UNCHANGED <<ty, live, relVars>>

AscendingRange_set_start(x) ==
    /\ ty = "AscendingRange"
    /\ live
    /\ op' = "set_start"
    /\ arg' = x
    /\ IF x <= range.end
       THEN /\ ret' = Ok(range.start)
            /\ range' = [range EXCEPT !.start = x]
       ELSE /\ ret' = Err(ASC_SET_START_ERR)
            /\ range' = range
    /\ UNCHANGED <<ty, live, relVars>>

\* Mutant: the end is replaced before it is validated and not restored.
AscendingRange_set_end_mut(x) ==
    /\ ty = "AscendingRange"
    /\ live
    /\ op' = "set_end"
    /\ arg' = x
    /\ range' = [range EXCEPT !.end = x]
    /\ ret' = IF x >= range.start THEN Ok(range.end) ELSE Err(ASC_SET_END_ERR)
    /\ UNCHANGED <<ty, live, relVars>>

AscendingRange_set_end(x) ==
    /\ ty = "AscendingRange"
    /\ live
    /\ op' = "set_end"
    /\ arg' = x
    /\ IF x >= range.start
       THEN /\ ret' = Ok(range.end)
            /\ range' = [range EXCEPT !.end = x]
       ELSE /\ ret' = Err(ASC_SET_END_ERR)
            /\ range' = range
    /\ UNCHANGED <<ty, live, relVars>>

\* ------------------------------------------------- RangeExt as operations
Covers ==
    /\ relOp' = "covers"
    /\ result' = covers(self, other)
    /\ UNCHANGED <<self, other, rangeVars>>

Intersects ==
    /\ relOp' = "intersects"
    /\ result' = intersects(self, other)
    /\ UNCHANGED <<self, other, rangeVars>>

\* ---------------------------------------------------------- specifications
InitRange ==
    /\ ty \in Types
    /\ live = FALSE
    /\ range = NoRange
    /\ op = "none"
    /\ arg = NoRange
    /\ ret = NoCall

InitRelIdle ==
    /\ self = Range(Zero, Zero)
    /\ other = Range(Zero, Zero)
    /\ relOp = "none"
    /\ result = FALSE

\* One value of one of the three wrapper types, driven by arbitrary calls.
Init == InitRange /\ InitRelIdle

Next ==
    \/ \E s \in Values, e \in Values : PositiveAscendingRange_try_from(Range(s, e))
    \/ \E x \in Values : PositiveAscendingRange_set_start(x)
    \/ \E x \in Values : PositiveAscendingRange_set_end(x)
    \/ \E s \in Values, e \in Values : NegativeAscendingRange_try_from(Range(s, e))
    \/ \E x \in Values : NegativeAscendingRange_set_start(x)
    \/ \E x \in Values : NegativeAscendingRange_set_end(x)
    \/ \E s \in Values, e \in Values : AscendingRange_try_from(Range(s, e))
    \/ \E x \in Values : AscendingRange_set_start(x)
    \/ \E x \in Values : AscendingRange_set_end(x)

Spec == Init /\ [][Next]_vars

\* The two pure predicates applied to every pair of raw ranges (Range<T>
\* carries no ordering invariant, so descending pairs are inputs too).
InitRel ==
    /\ ty = "AscendingRange"
    /\ live = FALSE
    /\ range = NoRange
    /\ op = "none"
    /\ arg = NoRange
    /\ ret = NoCall
    /\ self \in [start : RelValues, end : RelValues]
    /\ other \in [start : RelValues, end : RelValues]
    /\ relOp = "none"
    /\ result = FALSE

NextRel == Covers \/ Intersects

SpecRel == InitRel /\ [][NextRel]_vars

\* ------------------------------------------------------------------ claims

\* C1: a live PositiveAscendingRange always has start <= end and start >= 0,
\* after try_from and after every set_start / set_end, accepted or rejected.
C1_PositiveInvariant ==
    (ty = "PositiveAscendingRange" /\ live) =>
        (range.start <= range.end /\ range.start >= Zero)

\* A set_end that was accepted and left the range empty at its lower bound.
C1_Witness ==
    /\ ty = "PositiveAscendingRange"
    /\ live
    /\ op = "set_end"
    /\ ret.ok
    /\ range.start = range.end

\* C2: a live NegativeAscendingRange always has start <= end and end <= 0,
\* after try_from and after every set_start / set_end, accepted or rejected.
C2_NegativeInvariant ==
    (ty = "NegativeAscendingRange" /\ live) =>
        (range.start <= range.end /\ range.end <= Zero)

\* A set_start that was accepted and left the range empty at its upper bound.
C2_Witness ==
    /\ ty = "NegativeAscendingRange"
    /\ live
    /\ op = "set_start"
    /\ ret.ok
    /\ range.start = range.end

\* C3: for each of the three types, a set_start or set_end call that returns
\* Err leaves start and end exactly as they were before the call.
C3_RejectedSetterKeepsRange ==
    [][(live /\ op' \in {"set_start", "set_end"} /\ ~ret'.ok) => range' = range]_vars

\* A rejected setter call on a live value.
C3_Witness ==
    /\ live
    /\ op = "set_end"
    /\ ~ret.ok
    /\ ty = "NegativeAscendingRange"
    /\ arg = Zero

\* C4: PositiveAscendingRange::try_from((s, e)) has exactly three outcomes:
\* s <= e and s >= 0 gives Ok with start = s and end = e; s <= e and s < 0
\* gives START_LESS_THAN_ZERO; s > e gives START_AFTER_END_ERR whatever the
\* signs are (the ordering failure wins over the sign failure).
C4_PositiveTryFromOutcomes ==
    (ty = "PositiveAscendingRange" /\ op = "try_from") =>
        /\ (arg.start <= arg.end /\ arg.start >= Zero) =>
               (ret.ok /\ live /\ range.start = arg.start /\ range.end = arg.end)
        /\ (arg.start <= arg.end /\ arg.start < Zero) =>
               (~ret.ok /\ ~live /\ ret.err = START_LESS_THAN_ZERO)
        /\ (arg.start > arg.end) =>
               (~ret.ok /\ ~live /\ ret.err = START_AFTER_END_ERR)

\* A descending input whose start is also negative: both failures apply.
C4_Witness ==
    /\ ty = "PositiveAscendingRange"
    /\ op = "try_from"
    /\ arg.start > arg.end
    /\ arg.start < Zero
    /\ ~ret.ok

C6_AscendingNoSign ==
    [][ty = "AscendingRange" =>
          /\ op' = "try_from" =>
                /\ ret'.ok <=> (arg'.start <= arg'.end)
                /\ ret'.ok => (live' /\ range' = arg')
                /\ ~ret'.ok => (~live' /\ ret'.err = START_AFTER_END_ERR)
          /\ op' = "set_start" =>
                /\ ret'.ok <=> (arg' <= range.end)
                /\ ret'.ok => range' = Range(arg', range.end)
          /\ op' = "set_end" =>
                /\ ret'.ok <=> (arg' >= range.start)
                /\ ret'.ok => range' = Range(range.start, arg')]_vars

\* A negative start accepted by set_start on a range that ends above zero.
C6_Witness ==
    /\ ty = "AscendingRange"
    /\ op = "set_start"
    /\ ret.ok
    /\ arg < Zero
    /\ range.end > Zero

\* The points of the half-open interval [r.start, r.end).
Contains(r, p) == r.start <= p /\ p < r.end
AllPointsInside(a, b) == \A p \in RelValues : Contains(b, p) => Contains(a, p)

\* C7 as stated: covers(self, other) is true exactly when every point of other
\* is a point of self, the empty other included.
C7_CoversIsContainment ==
    relOp = "covers" => (result <=> AllPointsInside(self, other))

\* C7 amended: for a non-empty other (other.start < other.end), covers(self,
\* other) is true exactly when every point of other is a point of self.
C7_CoversIsContainmentNonEmpty ==
    (relOp = "covers" /\ other.start < other.end) =>
        (result <=> AllPointsInside(self, other))

\* covers answered true for a non-empty other that shares both bounds' side.
C7_Witness ==
    /\ relOp = "covers"
    /\ other.start < other.end
    /\ result
    /\ self.end = other.end
    /\ self.start < other.start

C9_SetterFailsOnlyOnViolation ==
    /\ (ty = "PositiveAscendingRange" /\ live /\ op = "set_start" /\ ~ret.ok) =>
           (arg > range.end \/ arg < Zero)
    /\ (ty = "NegativeAscendingRange" /\ live /\ op = "set_end" /\ ~ret.ok) =>
           (arg < range.start \/ arg > Zero)

====
